---- MODULE Spec2Model ----
(***************************************************************************)
(* State-machine model of src/script.js: the Google API / Google Identity  *)
(* initialization sequencer, the signed-in / signed-out view state machine *)
(* and the add / edit / delete row operations on the spreadsheet.          *)
(*                                                                         *)
(* The page is single threaded: every action below is one run of a handler *)
(* from its entry (or from the await it resumed at) to its next await or   *)
(* return.  Synchronous helpers of the script are operators on a record    *)
(* ("heap") holding the mutable state; an action applies the handler to    *)
(* the current heap and stores the result.                                 *)
(***************************************************************************)
EXTENDS Integers, Sequences, FiniteSets, TLC

VARIABLES
  dom,                     \* ids of the elements the document contains
  CONFIG,                  \* which keys of config.js are set
  gapiLib,                 \* "absent" | "loaded" (gapi) | "client" (gapi.client)
  gisLib,                  \* "absent" | "present" (google.accounts.id)
  integration,             \* googleSheetsIntegration: "absent" | "loaded" | "initialized"
  domLoaded,               \* DOMContentLoaded has been dispatched
  gapiInited,              \* line 4
  gisLoadedFlag,           \* line 5
  currentIdToken,          \* line 6
  initializationAttempts,  \* line 7
  initPc,                  \* initializeGapiClient: "idle" | "scheduled" | "awaiting"
  retryDelays,             \* delays of the setTimeout(initializeGapiClient, d) calls, in order
  rendered,                \* number of google.accounts.id.renderButton calls
  display,                 \* style.display of the three view containers
  gapiToken,               \* token held by gapi.client
  sessionStorage,          \* sessionStorage 'isLoggedIn'
  localStorage,            \* localStorage 'isLoggedIn'
  errorDisplay,            \* message visible in #errorDisplay ("" when none)
  lastError,               \* context of the last ErrorHandler.handleError call
  refreshPolls,            \* pending setTimeout(safeRefreshData, 500) timers
  uiReady,                 \* initializeUIComponents has registered the form handlers
  integrationPoll,         \* setTimeout(initializeGoogleSheetsIntegration, 1000) pending
  overridePoll,            \* setTimeout(setupRefreshDataOverride, 100) pending
  refreshWraps,            \* times refreshData has been wrapped by setupRefreshDataOverride
  readyEventSeen,          \* 'googleSheetsIntegrationReady' has been dispatched
  rejections,              \* promise rejections waiting for the unhandledrejection handler
  saveBtnDisabled,         \* #saveCustomer .disabled
  sheet,                   \* the spreadsheet: sheet row number -> its 12 cells (non-blank rows)
  addPc,                   \* handleAddCustomerSubmit: "idle" | "reading" | "writing"
  addRow,                  \* its rowData
  editPc,                  \* edit submit handler: "idle" | "updating"
  delPc,                   \* deleteCustomerRow: "idle" | "deleting"
  inFlight,                \* the requests the pending remote writes carry
  opsStarted,              \* add / edit / delete runs started (bounds the model)
  displayed,               \* cells of the displayed row the last edit / delete was started on
  peer,                    \* handleAddCustomerSubmit running in another page on the same sheet
  before,                  \* session and refresh state as the last step found it
  calls,                   \* external calls issued by the last step, in order
  lastOp,                  \* the handler step that ran last
  lastArg                  \* its input

vars == <<dom, CONFIG, gapiLib, gisLib, integration, domLoaded, gapiInited,
          gisLoadedFlag, currentIdToken, initializationAttempts, initPc,
          retryDelays, rendered, display, gapiToken, sessionStorage,
          localStorage, errorDisplay, lastError, refreshPolls, uiReady,
          integrationPoll, overridePoll, refreshWraps, readyEventSeen,
          rejections, saveBtnDisabled, sheet, addPc, addRow, editPc, delPc,
          inFlight, opsStarted, displayed, peer, before, calls, lastOp,
          lastArg>>

-----------------------------------------------------------------------------
(* Values *)

NULL == "null"
UNDEFINED == "undefined"

\* JavaScript truthiness of the string-or-missing values the script tests
Truthy(v) == v \notin {"", NULL, UNDEFINED}

Credentials == {"credA", "credB"}

\* response.credential of a credential response: a token, the empty string,
\* or no such field
Responses == Credentials \cup {"", UNDEFINED}

MAX_INITIALIZATION_ATTEMPTS == 3

RetryDelayUnit == 2000

ElementIds == {"sign-in-container", "main-content", "sign-out-button",
               "errorDisplay", "g_id_onload", "addCustomerForm", "editForm",
               "editModal", "saveCustomer"}

\* documents the page is loaded with: complete, or with one element missing
DomChoices == {ElementIds} \cup {ElementIds \ {e} : e \in ElementIds}

ConfigKeys == {"API_KEY", "SCOPES", "CLIENT_ID"}

\* config.js: complete, or with one key missing
ConfigChoices == {ConfigKeys} \cup {ConfigKeys \ {k} : k \in ConfigKeys}

NoDisplay == [login |-> "", main |-> "", signout |-> ""]
SignedInDisplay == [login |-> "none", main |-> "block", signout |-> "block"]
SignedOutDisplay == [login |-> "block", main |-> "none", signout |-> "none"]

RequiredDom == {"sign-in-container", "main-content", "sign-out-button"}

-----------------------------------------------------------------------------
(* The heap the synchronous helpers work on *)

Heap ==
  [gapiInited |-> gapiInited, gisLoadedFlag |-> gisLoadedFlag,
   currentIdToken |-> currentIdToken,
   initializationAttempts |-> initializationAttempts, initPc |-> initPc,
   retryDelays |-> retryDelays, rendered |-> rendered, display |-> display,
   gapiToken |-> gapiToken, sessionStorage |-> sessionStorage,
   localStorage |-> localStorage, errorDisplay |-> errorDisplay,
   lastError |-> lastError, refreshPolls |-> refreshPolls,
   uiReady |-> uiReady, integrationPoll |-> integrationPoll,
   overridePoll |-> overridePoll, refreshWraps |-> refreshWraps,
   rejections |-> rejections, saveBtnDisabled |-> saveBtnDisabled,
   sheet |-> sheet, addPc |-> addPc, addRow |-> addRow, editPc |-> editPc,
   delPc |-> delPc, inFlight |-> inFlight, calls |-> <<>>]

Snapshot ==
  [display |-> display, currentIdToken |-> currentIdToken,
   gapiToken |-> gapiToken, sessionStorage |-> sessionStorage,
   localStorage |-> localStorage, refreshPolls |-> refreshPolls]

Store(h) ==
  /\ before' = Snapshot
  /\ gapiInited' = h.gapiInited
  /\ gisLoadedFlag' = h.gisLoadedFlag
  /\ currentIdToken' = h.currentIdToken
  /\ initializationAttempts' = h.initializationAttempts
  /\ initPc' = h.initPc
  /\ retryDelays' = h.retryDelays
  /\ rendered' = h.rendered
  /\ display' = h.display
  /\ gapiToken' = h.gapiToken
  /\ sessionStorage' = h.sessionStorage
  /\ localStorage' = h.localStorage
  /\ errorDisplay' = h.errorDisplay
  /\ lastError' = h.lastError
  /\ refreshPolls' = h.refreshPolls
  /\ uiReady' = h.uiReady
  /\ integrationPoll' = h.integrationPoll
  /\ overridePoll' = h.overridePoll
  /\ refreshWraps' = h.refreshWraps
  /\ rejections' = h.rejections
  /\ saveBtnDisabled' = h.saveBtnDisabled
  /\ sheet' = h.sheet
  /\ addPc' = h.addPc
  /\ addRow' = h.addRow
  /\ editPc' = h.editPc
  /\ delPc' = h.delPc
  /\ inFlight' = h.inFlight
  /\ calls' = h.calls

\* an external call: the API called and, for a spreadsheet write, the rows and
\* columns of its range and the values it carries
Request(api, start, end, firstCol, lastCol, values) ==
  [api |-> api, start |-> start, end |-> end, firstCol |-> firstCol,
   lastCol |-> lastCol, values |-> values]

Issue(h, request) == [h EXCEPT !.calls = Append(@, request)]

Call(h, api) == Issue(h, Request(api, 0, 0, "", "", <<>>))

Called(api) == \E k \in 1..Len(calls) : calls[k].api = api

ViewSignedIn == display = SignedInDisplay

ViewSignedOut == display = SignedOutDisplay

-----------------------------------------------------------------------------
(* ErrorHandler *)

showUserError(message, h) ==
  IF "errorDisplay" \in dom THEN [h EXCEPT !.errorDisplay = message] ELSE h

\* the banner of handleError is identified by the context it reports
handleError(context, h) ==
  showUserError(context, [h EXCEPT !.lastError = context])

-----------------------------------------------------------------------------
(* Session / view state machine *)

\* mutant: the sign-in branch does not write the session flag
updateSigninStatus_NoFlag(isSignedIn, h) ==
  IF ~(RequiredDom \subseteq dom)
  THEN h
  ELSE IF isSignedIn
       THEN LET h1 == [h EXCEPT !.display = SignedInDisplay] IN
            IF Truthy(h1.currentIdToken) /\ gapiLib # "client"
            THEN handleError("updateSigninStatus", h1)
            ELSE LET h2 == IF Truthy(h1.currentIdToken)
                           THEN Call([h1 EXCEPT !.gapiToken = h1.currentIdToken],
                                     "gapi.client.setToken")
                           ELSE h1
                 IN IF integration # "absent"
                    THEN Call(h2, "googleSheetsIntegration.init")
                    ELSE h2
       ELSE LET h1 == [h EXCEPT !.display = SignedOutDisplay] IN
            IF gapiLib # "client"
            THEN handleError("updateSigninStatus", h1)
            ELSE Call([h1 EXCEPT !.gapiToken = ""], "gapi.client.setToken")

\* mutant: the containers are not looked for before they are used
updateSigninStatus_NoDomCheck(isSignedIn, h) ==
  IF isSignedIn
  THEN LET h1 == [h EXCEPT !.display = SignedInDisplay] IN
       IF Truthy(h1.currentIdToken) /\ gapiLib # "client"
       THEN handleError("updateSigninStatus", h1)
       ELSE LET h2 == IF Truthy(h1.currentIdToken)
                      THEN Call([h1 EXCEPT !.gapiToken = h1.currentIdToken],
                                "gapi.client.setToken")
                      ELSE h1
                h3 == IF integration # "absent"
                      THEN Call(h2, "googleSheetsIntegration.init")
                      ELSE h2
            IN [h3 EXCEPT !.sessionStorage = "true"]
  ELSE LET h1 == [h EXCEPT !.display = SignedOutDisplay] IN
       IF gapiLib # "client"
       THEN handleError("updateSigninStatus", h1)
       ELSE Call([h1 EXCEPT !.gapiToken = ""], "gapi.client.setToken")

\* mutant: the sign-in branch forgets the API client token
updateSigninStatus_NoToken(isSignedIn, h) ==
  IF ~(RequiredDom \subseteq dom)
  THEN h
  ELSE IF isSignedIn
       THEN LET h1 == [h EXCEPT !.display = SignedInDisplay]
                h3 == IF integration # "absent"
                      THEN Call(h1, "googleSheetsIntegration.init")
                      ELSE h1
            IN [h3 EXCEPT !.sessionStorage = "true"]
       ELSE LET h1 == [h EXCEPT !.display = SignedOutDisplay] IN
            IF gapiLib # "client"
            THEN handleError("updateSigninStatus", h1)
            ELSE Call([h1 EXCEPT !.gapiToken = ""], "gapi.client.setToken")

updateSigninStatus(isSignedIn, h) ==
  IF ~(RequiredDom \subseteq dom)
  THEN h
  ELSE IF isSignedIn
       THEN LET h1 == [h EXCEPT !.display = SignedInDisplay] IN
            IF Truthy(h1.currentIdToken) /\ gapiLib # "client"
            THEN handleError("updateSigninStatus", h1)
            ELSE LET h2 == IF Truthy(h1.currentIdToken)
                           THEN Call([h1 EXCEPT !.gapiToken = h1.currentIdToken],
                                     "gapi.client.setToken")
                           ELSE h1
                     h3 == IF integration # "absent"
                           THEN Call(h2, "googleSheetsIntegration.init")
                           ELSE h2
                 IN [h3 EXCEPT !.sessionStorage = "true"]
       ELSE LET h1 == [h EXCEPT !.display = SignedOutDisplay] IN
            IF gapiLib # "client"
            THEN handleError("updateSigninStatus", h1)
            ELSE Call([h1 EXCEPT !.gapiToken = ""], "gapi.client.setToken")

\* mutant: the view is left as it is after the button is drawn
maybeRenderSignInButton_KeepsView(h) ==
  IF h.gapiInited /\ h.gisLoadedFlag
  THEN IF "g_id_onload" \in dom
       THEN Call([h EXCEPT !.rendered = @ + 1], "google.accounts.id.renderButton")
       ELSE h
  ELSE h

\* mutant: the gate passes as soon as one side is ready
maybeRenderSignInButton_EitherFlag(h) ==
  IF h.gapiInited \/ h.gisLoadedFlag
  THEN IF "g_id_onload" \in dom
       THEN updateSigninStatus(FALSE,
              Call([h EXCEPT !.rendered = @ + 1], "google.accounts.id.renderButton"))
       ELSE h
  ELSE h

maybeRenderSignInButton(h) ==
  IF h.gapiInited /\ h.gisLoadedFlag
  THEN IF "g_id_onload" \in dom
       THEN updateSigninStatus(FALSE,
              Call([h EXCEPT !.rendered = @ + 1], "google.accounts.id.renderButton"))
       ELSE h
  ELSE h

\* mutant: the view is updated before the credential is stored
handleCredentialResponse_StoresLate(response, h) ==
  IF Truthy(response)
  THEN [updateSigninStatus(TRUE, h) EXCEPT !.currentIdToken = response]
  ELSE updateSigninStatus(FALSE, handleError("handleCredentialResponse", h))

\* mutant: the credential is taken without being tested
handleCredentialResponse_Unchecked(response, h) ==
  updateSigninStatus(TRUE, [h EXCEPT !.currentIdToken = response])

handleCredentialResponse(response, h) ==
  IF Truthy(response)
  THEN updateSigninStatus(TRUE, [h EXCEPT !.currentIdToken = response])
  ELSE updateSigninStatus(FALSE, handleError("handleCredentialResponse", h))

\* mutant: disableAutoSelect is called without testing for the library, and
\* its TypeError ends the handler
handleSignoutClick_NoGuard(h) ==
  IF gisLib = "present"
  THEN LET h1 == Call(h, "google.accounts.id.disableAutoSelect")
           h2 == updateSigninStatus(FALSE, [h1 EXCEPT !.currentIdToken = NULL])
       IN [h2 EXCEPT !.sessionStorage = NULL, !.localStorage = NULL]
  ELSE handleError("handleSignoutClick", h)

\* mutant: only the session-scoped key is removed
handleSignoutClick_KeepsLocal(h) ==
  LET h1 == IF gisLib = "present"
            THEN Call(h, "google.accounts.id.disableAutoSelect")
            ELSE h
      h2 == updateSigninStatus(FALSE, [h1 EXCEPT !.currentIdToken = NULL])
  IN [h2 EXCEPT !.sessionStorage = NULL]

handleSignoutClick(h) ==
  LET h1 == IF gisLib = "present"
            THEN Call(h, "google.accounts.id.disableAutoSelect")
            ELSE h
      h2 == updateSigninStatus(FALSE, [h1 EXCEPT !.currentIdToken = NULL])
  IN [h2 EXCEPT !.sessionStorage = NULL, !.localStorage = NULL]

-----------------------------------------------------------------------------
(* Initialization sequencer *)

\* mutant: the attempt bound is tested with <=
initializeGapiClientCatch_OneMore(h) ==
  LET h1 == handleError("initializeGapiClient", h)
      h2 == [h1 EXCEPT !.initializationAttempts = @ + 1]
  IN IF h2.initializationAttempts <= MAX_INITIALIZATION_ATTEMPTS
     THEN [h2 EXCEPT !.retryDelays =
                        Append(@, RetryDelayUnit * h2.initializationAttempts),
                     !.initPc = "scheduled"]
     ELSE [h2 EXCEPT !.initPc = "idle"]

\* the catch block of initializeGapiClient
initializeGapiClientCatch(h) ==
  LET h1 == handleError("initializeGapiClient", h)
      h2 == [h1 EXCEPT !.initializationAttempts = @ + 1]
  IN IF h2.initializationAttempts < MAX_INITIALIZATION_ATTEMPTS
     THEN [h2 EXCEPT !.retryDelays =
                        Append(@, RetryDelayUnit * h2.initializationAttempts),
                     !.initPc = "scheduled"]
     ELSE [h2 EXCEPT !.initPc = "idle"]

\* initializeGapiClient after gapi.client.init resolved
initializeGapiClientResolved(h) ==
  maybeRenderSignInButton([h EXCEPT !.gapiInited = TRUE, !.initPc = "idle"])

\* initializeGapiClient up to the await of gapi.client.init
initializeGapiClientEntry(h) ==
  IF ~({"API_KEY", "SCOPES"} \subseteq CONFIG)
  THEN initializeGapiClientCatch(h)
  ELSE Call([h EXCEPT !.initPc = "awaiting"], "gapi.client.init")

\* mutant: the flag is set before the configuration is checked
gisLoadedBody_FlagFirst(h) ==
  IF "CLIENT_ID" \notin CONFIG
  THEN handleError("gisLoaded", [h EXCEPT !.gisLoadedFlag = TRUE])
  ELSE maybeRenderSignInButton(
         Call([h EXCEPT !.gisLoadedFlag = TRUE], "google.accounts.id.initialize"))

\* mutant: the gating check is not run after the identity service is ready
gisLoadedBody_NoGate(h) ==
  IF "CLIENT_ID" \notin CONFIG
  THEN handleError("gisLoaded", h)
  ELSE Call([h EXCEPT !.gisLoadedFlag = TRUE], "google.accounts.id.initialize")

gisLoadedBody(h) ==
  IF "CLIENT_ID" \notin CONFIG
  THEN handleError("gisLoaded", h)
  ELSE maybeRenderSignInButton(
         Call([h EXCEPT !.gisLoadedFlag = TRUE], "google.accounts.id.initialize"))

-----------------------------------------------------------------------------
(* Refresh and the late-loading integration object *)

safeRefreshData(h) ==
  IF integration # "absent"
  THEN Call(h, "googleSheetsIntegration.refreshData")
  ELSE [h EXCEPT !.refreshPolls = @ + 1]

initializeGoogleSheetsIntegration(h) ==
  IF integration = "absent"
  THEN [h EXCEPT !.integrationPoll = TRUE]
  ELSE IF integration = "initialized"
       THEN safeRefreshData([h EXCEPT !.integrationPoll = FALSE])
       ELSE [h EXCEPT !.integrationPoll = FALSE]

\* mutant: the timer is set again after refreshData has been wrapped
setupRefreshDataOverride_KeepsPolling(h) ==
  IF integration # "absent"
  THEN [h EXCEPT !.refreshWraps = @ + 1, !.overridePoll = TRUE]
  ELSE [h EXCEPT !.overridePoll = TRUE]

setupRefreshDataOverride(h) ==
  IF integration # "absent"
  THEN [h EXCEPT !.refreshWraps = @ + 1, !.overridePoll = FALSE]
  ELSE [h EXCEPT !.overridePoll = TRUE]

closeEditModal(h) ==
  IF "editModal" \in dom /\ "errorDisplay" \in dom
  THEN [h EXCEPT !.errorDisplay = ""]
  ELSE h

-----------------------------------------------------------------------------
(* Page load *)

\* the three DOMContentLoaded listeners, in registration order
domContentLoaded(h) ==
  LET h1 == IF ~({"sign-in-container", "main-content", "errorDisplay"} \subseteq dom)
            THEN h
            ELSE LET g == IF h.sessionStorage = "true"
                          THEN updateSigninStatus(TRUE, h)
                          ELSE h
                 IN [g EXCEPT !.uiReady = TRUE]
  IN setupRefreshDataOverride(initializeGoogleSheetsIntegration(h1))

-----------------------------------------------------------------------------
(* The spreadsheet *)

Columns == 12

Letters == <<"A", "B", "C", "D", "E", "F", "G", "H", "I", "J", "K", "L">>

BlankRow == [c \in 1..Columns |-> ""]

CellsOf(sh, r) == IF r \in DOMAIN sh THEN sh[r] ELSE BlankRow

Max(S) == CHOOSE x \in S : \A y \in S : y <= x

\* spreadsheets.values.get over the data range (row 2 downwards): the rows up
\* to the last one that holds a value
ValuesGet(sh) ==
  IF DOMAIN sh = {} THEN <<>>
  ELSE [k \in 1..(Max(DOMAIN sh) - 1) |-> CellsOf(sh, k + 1)]

\* spreadsheets.values.update of one row: the cells of the range take the
\* values sent, the others keep theirs
ValuesUpdate(sh, request) ==
  LET r == request.start
      n == Len(request.values)
      cells == [c \in 1..Columns |->
                 IF c <= n THEN request.values[c] ELSE CellsOf(sh, r)[c]]
      others == DOMAIN sh \ {r}
  IN IF cells = BlankRow
     THEN [x \in others |-> sh[x]]
     ELSE [x \in others \cup {r} |-> IF x = r THEN cells ELSE sh[x]]

\* batchUpdate deleteDimension ROWS [start, end): 0-based, end exclusive; the
\* rows below move up
DeleteDimension(sh, request) ==
  LET n == request.end - request.start
      kept == {x \in DOMAIN sh : x <= request.start \/ x > request.end}
      moved == {IF x > request.end THEN x - n ELSE x : x \in kept}
  IN [x \in moved |-> IF x <= request.start THEN sh[x] ELSE sh[x + n]]

-----------------------------------------------------------------------------
(* Decimal strings: the value of the hidden #editRowIndex input *)

Digits == <<"0", "1", "2", "3", "4", "5", "6", "7", "8", "9">>

RECURSIVE ToDecimal(_)
ToDecimal(n) ==
  IF n < 10 THEN <<Digits[n + 1]>>
  ELSE Append(ToDecimal(n \div 10), Digits[(n % 10) + 1])

DigitValue(ch) == (CHOOSE k \in 1..10 : Digits[k] = ch) - 1

RECURSIVE parseIntFrom(_, _)
parseIntFrom(str, acc) ==
  IF str = <<>> THEN acc
  ELSE parseIntFrom(Tail(str), 10 * acc + DigitValue(Head(str)))

parseInt(str) == parseIntFrom(str, 0)

-----------------------------------------------------------------------------
(* Row mutation operations *)

RequiredFields == {"nama", "no_telepon", "alamat", "odp_terdekat", "nama_sales"}

OptionalFields == {"visit", "keterangan", "status", "email", "kelurahan",
                   "tanggal_visit", "priority"}

FormFields == RequiredFields \cup OptionalFields

\* submitted forms: every field filled, the required ones only, one required
\* field left empty, nothing filled
FormChoices ==
  {[f \in FormFields |-> "x"]}
  \cup {[f \in FormFields |-> IF f \in RequiredFields THEN "x" ELSE ""]}
  \cup {[f \in FormFields |-> IF f = e THEN "" ELSE "x"] : e \in RequiredFields}
  \cup {[f \in FormFields |-> ""]}

Or(a, b) == IF Truthy(a) THEN a ELSE b

rowData(customerData) ==
  <<Or(customerData["odp_terdekat"], ""), Or(customerData["nama"], ""),
    Or(customerData["alamat"], ""), Or(customerData["no_telepon"], ""),
    Or(customerData["nama_sales"], ""), Or(customerData["visit"], "Not Visited"),
    Or(customerData["keterangan"], ""), Or(customerData["status"], "Baru"),
    Or(customerData["email"], ""), Or(customerData["kelurahan"], ""),
    Or(customerData["tanggal_visit"], ""), Or(customerData["priority"], "Normal")>>

\* the finally block of handleAddCustomerSubmit
addFinally(h) ==
  IF "saveCustomer" \in dom
  THEN [h EXCEPT !.saveBtnDisabled = FALSE, !.addPc = "idle"]
  ELSE [h EXCEPT !.rejections = @ + 1, !.addPc = "idle"]

\* mutant: the error is reported and the button left as it is (no finally)
addCatch_NoFinally(h) ==
  [handleError("handleAddCustomerSubmit", h) EXCEPT !.addPc = "idle"]

addCatch(h) == addFinally(handleError("handleAddCustomerSubmit", h))

\* mutant: the API client is used without testing that it is initialized
handleAddCustomerSubmit_NoInitCheck(customerData, h) ==
  IF \E f \in RequiredFields : ~Truthy(customerData[f])
  THEN addFinally(showUserError("Mohon lengkapi semua field", h))
  ELSE IF "saveCustomer" \notin dom
       THEN addCatch(h)
       ELSE Issue([h EXCEPT !.saveBtnDisabled = TRUE,
                            !.addRow = rowData(customerData),
                            !.addPc = "reading"],
                  Request("values.get", 2, 0, "A", "L", <<>>))

\* mutant: the submission is rejected only when every required field is empty
handleAddCustomerSubmit_AllEmpty(customerData, h) ==
  IF ~h.gapiInited
  THEN showUserError("Google API client not initialized", h)
  ELSE IF \A f \in RequiredFields : ~Truthy(customerData[f])
       THEN addFinally(showUserError("Mohon lengkapi semua field", h))
       ELSE IF "saveCustomer" \notin dom
            THEN addCatch(h)
            ELSE Issue([h EXCEPT !.saveBtnDisabled = TRUE,
                                 !.addRow = rowData(customerData),
                                 !.addPc = "reading"],
                       Request("values.get", 2, 0, "A", "L", <<>>))

\* handleAddCustomerSubmit up to the await of values.get
handleAddCustomerSubmit(customerData, h) ==
  IF ~h.gapiInited
  THEN showUserError("Google API client not initialized", h)
  ELSE IF \E f \in RequiredFields : ~Truthy(customerData[f])
       THEN addFinally(showUserError("Mohon lengkapi semua field", h))
       ELSE IF "saveCustomer" \notin dom
            THEN addCatch(h)
            ELSE Issue([h EXCEPT !.saveBtnDisabled = TRUE,
                                 !.addRow = rowData(customerData),
                                 !.addPc = "reading"],
                       Request("values.get", 2, 0, "A", "L", <<>>))

\* mutant: the header row is not counted
addAfterRead_PlusOne(h) ==
  LET values == ValuesGet(h.sheet)
      nextRow == Len(values) + 1
      request == Request("values.update", nextRow, nextRow, "A", "L", h.addRow)
  IN Issue([h EXCEPT !.addPc = "writing",
                     !.inFlight = [@ EXCEPT !.add = request]], request)

\* ... from the values.get response to the await of values.update
addAfterRead(h) ==
  LET values == ValuesGet(h.sheet)
      nextRow == Len(values) + 2
      request == Request("values.update", nextRow, nextRow, "A", "L", h.addRow)
  IN Issue([h EXCEPT !.addPc = "writing",
                     !.inFlight = [@ EXCEPT !.add = request]], request)

\* mutant: the row is written below the rows the sheet holds when the write
\* is applied (an atomic append)
addAfterWrite_Appends(h) ==
  LET nextRow == Len(ValuesGet(h.sheet)) + 2
      request == [h.inFlight.add EXCEPT !.start = nextRow, !.end = nextRow]
  IN addFinally(safeRefreshData(
       showUserError("Calon pelanggan berhasil ditambahkan",
                     [h EXCEPT !.sheet = ValuesUpdate(@, request)])))

\* ... after values.update resolved
addAfterWrite(h) ==
  addFinally(safeRefreshData(
    showUserError("Calon pelanggan berhasil ditambahkan",
                  [h EXCEPT !.sheet = ValuesUpdate(@, h.inFlight.add)])))

EditValues == {[c \in 1..8 |-> IF c = 7 THEN "" ELSE "e"]}

\* mutant: the header row is not counted
editFormSubmit_PlusOne(index, values, h) ==
  LET rowToUpdate == parseInt(index) + 1
      request == Request("values.update", rowToUpdate, rowToUpdate, "A", "H", values)
  IN IF ~h.gapiInited
     THEN handleError("editForm.submit", h)
     ELSE Issue([h EXCEPT !.editPc = "updating",
                          !.inFlight = [@ EXCEPT !.edit = request]], request)

\* mutant: the index is not parsed, so + 2 appends a character to the string
editFormSubmit_Concat(index, values, h) ==
  LET rowToUpdate == parseInt(Append(index, "2"))
      request == Request("values.update", rowToUpdate, rowToUpdate, "A", "H", values)
  IN IF ~h.gapiInited
     THEN handleError("editForm.submit", h)
     ELSE Issue([h EXCEPT !.editPc = "updating",
                          !.inFlight = [@ EXCEPT !.edit = request]], request)

\* the edit submit handler up to the await of values.update; index is the
\* value of #editRowIndex
editFormSubmit(index, values, h) ==
  LET rowToUpdate == parseInt(index) + 2
      request == Request("values.update", rowToUpdate, rowToUpdate, "A", "H", values)
  IN IF ~h.gapiInited
     THEN handleError("editForm.submit", h)
     ELSE Issue([h EXCEPT !.editPc = "updating",
                          !.inFlight = [@ EXCEPT !.edit = request]], request)

\* mutant: the modal is closed and nothing else
editAfterUpdate_NoRefresh(h) ==
  closeEditModal(
    [h EXCEPT !.sheet = ValuesUpdate(@, h.inFlight.edit), !.editPc = "idle"])

\* ... after values.update resolved
editAfterUpdate(h) ==
  safeRefreshData(closeEditModal(
    [h EXCEPT !.sheet = ValuesUpdate(@, h.inFlight.edit), !.editPc = "idle"]))

deleteCatch(h) ==
  showUserError("Gagal menghapus data",
                handleError("deleteCustomerRow", [h EXCEPT !.delPc = "idle"]))

\* mutant: the 1-based row number is used as the 0-based start index
deleteCustomerRow_OneBased(rowIndex, h) ==
  LET sheetRowIndex == rowIndex + 2
      request == Request("batchUpdate.deleteDimension", sheetRowIndex,
                         sheetRowIndex + 1, "ROWS", "ROWS", <<>>)
  IN IF ~h.gapiInited
     THEN deleteCatch(h)
     ELSE Issue([h EXCEPT !.delPc = "deleting",
                          !.inFlight = [@ EXCEPT !.del = request]], request)

\* deleteCustomerRow up to the await of batchUpdate
deleteCustomerRow(rowIndex, h) ==
  LET sheetRowIndex == rowIndex + 2
      request == Request("batchUpdate.deleteDimension", sheetRowIndex - 1,
                         sheetRowIndex, "ROWS", "ROWS", <<>>)
  IN IF ~h.gapiInited
     THEN deleteCatch(h)
     ELSE Issue([h EXCEPT !.delPc = "deleting",
                          !.inFlight = [@ EXCEPT !.del = request]], request)

\* ... after batchUpdate resolved
deleteAfterBatchUpdate(h) ==
  safeRefreshData(
    showUserError("Data pelanggan berhasil dihapus",
                  [h EXCEPT !.sheet = DeleteDimension(@, h.inFlight.del),
                            !.delPc = "idle"]))

-----------------------------------------------------------------------------
(* Bounds of the model *)

\* rows the sheet holds when the page is loaded
InitialRows == 2

\* displayed indices an edit or a delete is given: 0..SmallIndex and LargeIndex
SmallIndex == 1

LargeIndex == 10

Indices == 0..SmallIndex \cup {LargeIndex}

\* add / edit / delete runs per page
MaxOps == 2

SheetRow(k) ==
  [c \in 1..Columns |-> IF c <= 8 THEN Letters[k] ELSE ""]

NoRequest == Request("", 0, 0, "", "", <<>>)

Page(d, c, s, l, n) ==
  [dom |-> d, CONFIG |-> c, sessionStorage |-> s, localStorage |-> l, rows |-> n]

\* pages for the view state machine: the complete page with every content of
\* the two storage keys; a page with one element missing; a page with one
\* configuration key missing
ViewPages ==
  {Page(ElementIds, ConfigKeys, s, l, InitialRows) :
     s \in {NULL, "true"}, l \in {NULL, "true"}}
  \cup {Page(d, ConfigKeys, s, NULL, InitialRows) :
          d \in DomChoices, s \in {NULL, "true"}}
  \cup {Page(ElementIds, c, NULL, NULL, InitialRows) : c \in ConfigChoices}

\* pages for the row operations: the complete page over every content of the
\* sheet; a page with one element missing
RowPages ==
  {Page(ElementIds, ConfigKeys, NULL, NULL, n) : n \in 0..InitialRows}
  \cup {Page(d, ConfigKeys, NULL, NULL, InitialRows) : d \in DomChoices}

Pages == ViewPages \cup RowPages

-----------------------------------------------------------------------------
(* Initial state: the script has been evaluated, nothing has loaded yet.   *)
(* The storage keys hold whatever an earlier page of the tab / origin left.*)

InitOn(pages) ==
  /\ \E page \in pages :
       /\ dom = page.dom
       /\ CONFIG = page.CONFIG
       /\ sessionStorage = page.sessionStorage
       /\ localStorage = page.localStorage
       /\ sheet = [r \in 2..(page.rows + 1) |-> SheetRow(r - 1)]
  /\ gapiLib = "absent"
  /\ gisLib = "absent"
  /\ integration = "absent"
  /\ domLoaded = FALSE
  /\ gapiInited = FALSE
  /\ gisLoadedFlag = FALSE
  /\ currentIdToken = NULL
  /\ initializationAttempts = 0
  /\ initPc = "idle"
  /\ retryDelays = <<>>
  /\ rendered = 0
  /\ display = NoDisplay
  /\ gapiToken = NULL
  /\ errorDisplay = ""
  /\ lastError = "none"
  /\ refreshPolls = 0
  /\ uiReady = FALSE
  /\ integrationPoll = FALSE
  /\ overridePoll = FALSE
  /\ refreshWraps = 0
  /\ readyEventSeen = FALSE
  /\ rejections = 0
  /\ saveBtnDisabled = FALSE
  /\ addPc = "idle"
  /\ addRow = <<>>
  /\ editPc = "idle"
  /\ delPc = "idle"
  /\ inFlight = [add |-> NoRequest, edit |-> NoRequest, del |-> NoRequest]
  /\ opsStarted = 0
  /\ displayed = [edit |-> BlankRow, del |-> BlankRow]
  /\ peer = [pc |-> "idle", request |-> NoRequest]
  /\ before = Snapshot
  /\ calls = <<>>
  /\ lastOp = "load"
  /\ lastArg = NULL

Init == InitOn(Pages)

\* what a step of the page leaves alone unless it says otherwise: the
\* document, the configuration, and the add running in the other page
Env == <<dom, CONFIG, peer>>

Libs == <<gapiLib, gisLib, integration, readyEventSeen>>

-----------------------------------------------------------------------------
(* Actions *)

DOMContentLoaded ==
  /\ ~domLoaded
  /\ domLoaded' = TRUE
  /\ Store(domContentLoaded(Heap))
  /\ lastOp' = "DOMContentLoaded"
  /\ lastArg' = NULL
  /\ UNCHANGED <<Env, displayed, Libs, opsStarted>>

\* the gapi script has loaded: window.gapiLoaded runs, gapi.load('client', ...)
\* is asked to call initializeGapiClient
GapiLoaded ==
  /\ gapiLib = "absent"
  /\ gapiLib' = "loaded"
  /\ Store([Call(Heap, "gapi.load") EXCEPT !.initPc = "scheduled"])
  /\ lastOp' = "gapiLoaded"
  /\ lastArg' = NULL
  /\ UNCHANGED <<Env, displayed, gisLib, integration, readyEventSeen, domLoaded, opsStarted>>

\* initializeGapiClient is called, by gapi.load or by a retry timer
InitializeGapiClient ==
  /\ initPc = "scheduled"
  /\ gapiLib' = "client"
  /\ Store(initializeGapiClientEntry(Heap))
  /\ lastOp' = "initializeGapiClient"
  /\ lastArg' = NULL
  /\ UNCHANGED <<Env, displayed, gisLib, integration, readyEventSeen, domLoaded, opsStarted>>

\* gapi.client.init resolves
GapiClientInitResolves ==
  /\ initPc = "awaiting"
  /\ Store(initializeGapiClientResolved(Heap))
  /\ lastOp' = "initializeGapiClient.resolved"
  /\ lastArg' = NULL
  /\ UNCHANGED <<Env, displayed, Libs, domLoaded, opsStarted>>

\* gapi.client.init rejects
GapiClientInitRejects ==
  /\ initPc = "awaiting"
  /\ Store(initializeGapiClientCatch(Heap))
  /\ lastOp' = "initializeGapiClient.rejected"
  /\ lastArg' = NULL
  /\ UNCHANGED <<Env, displayed, Libs, domLoaded, opsStarted>>

\* the Google Identity Services script has loaded: window.gisLoaded runs
GisLoaded ==
  /\ gisLib = "absent"
  /\ gisLib' = "present"
  /\ Store(gisLoadedBody(Heap))
  /\ lastOp' = "gisLoaded"
  /\ lastArg' = NULL
  /\ UNCHANGED <<Env, displayed, gapiLib, integration, readyEventSeen, domLoaded, opsStarted>>

\* the identity library calls the callback registered at line 87 for the
\* button drawn at line 125
HandleCredentialResponse(response) ==
  /\ rendered > 0
  /\ Store(handleCredentialResponse(response, Heap))
  /\ lastOp' = "handleCredentialResponse"
  /\ lastArg' = response
  /\ UNCHANGED <<Env, displayed, Libs, domLoaded, opsStarted>>

HandleSignoutClick ==
  /\ Store(handleSignoutClick(Heap))
  /\ lastOp' = "handleSignoutClick"
  /\ lastArg' = NULL
  /\ UNCHANGED <<Env, displayed, Libs, domLoaded, opsStarted>>

\* the script defining googleSheetsIntegration has run
IntegrationLoads ==
  /\ integration = "absent"
  /\ integration' = "loaded"
  /\ Store(Heap)
  /\ lastOp' = "integration.loaded"
  /\ lastArg' = NULL
  /\ UNCHANGED <<Env, displayed, gapiLib, gisLib, readyEventSeen, domLoaded, opsStarted>>

\* googleSheetsIntegration.isInitialized becomes true
IntegrationInitialized ==
  /\ integration = "loaded"
  /\ integration' = "initialized"
  /\ Store(Heap)
  /\ lastOp' = "integration.initialized"
  /\ lastArg' = NULL
  /\ UNCHANGED <<Env, displayed, gapiLib, gisLib, readyEventSeen, domLoaded, opsStarted>>

\* the 'googleSheetsIntegrationReady' event is dispatched
GoogleSheetsIntegrationReady ==
  /\ integration # "absent"
  /\ ~readyEventSeen
  /\ readyEventSeen' = TRUE
  /\ Store(safeRefreshData(Heap))
  /\ lastOp' = "googleSheetsIntegrationReady"
  /\ lastArg' = NULL
  /\ UNCHANGED <<Env, displayed, gapiLib, gisLib, integration, domLoaded, opsStarted>>

\* a setTimeout(safeRefreshData, 500) timer fires
SafeRefreshDataTimer ==
  /\ refreshPolls > 0
  /\ Store(safeRefreshData([Heap EXCEPT !.refreshPolls = @ - 1]))
  /\ lastOp' = "safeRefreshData.timer"
  /\ lastArg' = NULL
  /\ UNCHANGED <<Env, displayed, Libs, domLoaded, opsStarted>>

\* the setTimeout(initializeGoogleSheetsIntegration, 1000) timer fires
InitializeGoogleSheetsIntegrationTimer ==
  /\ integrationPoll
  /\ Store(initializeGoogleSheetsIntegration(Heap))
  /\ lastOp' = "initializeGoogleSheetsIntegration.timer"
  /\ lastArg' = NULL
  /\ UNCHANGED <<Env, displayed, Libs, domLoaded, opsStarted>>

\* the setTimeout(setupRefreshDataOverride, 100) timer fires
SetupRefreshDataOverrideTimer ==
  /\ overridePoll
  /\ Store(setupRefreshDataOverride(Heap))
  /\ lastOp' = "setupRefreshDataOverride.timer"
  /\ lastArg' = NULL
  /\ UNCHANGED <<Env, displayed, Libs, domLoaded, opsStarted>>

\* window 'unhandledrejection'
UnhandledRejection ==
  /\ rejections > 0
  /\ Store(handleError("Unhandled Promise Rejection",
                       [Heap EXCEPT !.rejections = @ - 1]))
  /\ lastOp' = "unhandledrejection"
  /\ lastArg' = NULL
  /\ UNCHANGED <<Env, displayed, Libs, domLoaded, opsStarted>>

\* the add-customer form is submitted
AddCustomerSubmit(customerData) ==
  /\ uiReady
  /\ "addCustomerForm" \in dom
  /\ addPc = "idle"
  /\ opsStarted < MaxOps
  /\ opsStarted' = opsStarted + 1
  /\ Store(handleAddCustomerSubmit(customerData, Heap))
  /\ lastOp' = "handleAddCustomerSubmit"
  /\ lastArg' = customerData
  /\ UNCHANGED <<Env, displayed, Libs, domLoaded>>

AddReadResolves ==
  /\ addPc = "reading"
  /\ Store(addAfterRead(Heap))
  /\ lastOp' = "handleAddCustomerSubmit.read"
  /\ lastArg' = NULL
  /\ UNCHANGED <<Env, displayed, Libs, domLoaded, opsStarted>>

AddReadRejects ==
  /\ addPc = "reading"
  /\ Store(addCatch(Heap))
  /\ lastOp' = "handleAddCustomerSubmit.readFailed"
  /\ lastArg' = NULL
  /\ UNCHANGED <<Env, displayed, Libs, domLoaded, opsStarted>>

AddWriteResolves ==
  /\ addPc = "writing"
  /\ Store(addAfterWrite(Heap))
  /\ lastOp' = "handleAddCustomerSubmit.written"
  /\ lastArg' = NULL
  /\ UNCHANGED <<Env, displayed, Libs, domLoaded, opsStarted>>

AddWriteRejects ==
  /\ addPc = "writing"
  /\ Store(addCatch(Heap))
  /\ lastOp' = "handleAddCustomerSubmit.writeFailed"
  /\ lastArg' = NULL
  /\ UNCHANGED <<Env, displayed, Libs, domLoaded, opsStarted>>

\* the edit form is submitted with displayed index i in #editRowIndex
EditFormSubmit(i, values) ==
  /\ uiReady
  /\ "editForm" \in dom
  /\ editPc = "idle"
  /\ opsStarted < MaxOps
  /\ opsStarted' = opsStarted + 1
  /\ Store(editFormSubmit(ToDecimal(i), values, Heap))
  /\ lastOp' = "editForm.submit"
  /\ lastArg' = i
  /\ displayed' = [displayed EXCEPT !.edit =
                     IF gapiInited THEN CellsOf(sheet, i + 2) ELSE @]
  /\ UNCHANGED <<Env, Libs, domLoaded>>

EditUpdateResolves ==
  /\ editPc = "updating"
  /\ Store(editAfterUpdate(Heap))
  /\ lastOp' = "editForm.updated"
  /\ lastArg' = NULL
  /\ UNCHANGED <<Env, displayed, Libs, domLoaded, opsStarted>>

EditUpdateRejects ==
  /\ editPc = "updating"
  /\ Store(handleError("editForm.submit", [Heap EXCEPT !.editPc = "idle"]))
  /\ lastOp' = "editForm.updateFailed"
  /\ lastArg' = NULL
  /\ UNCHANGED <<Env, displayed, Libs, domLoaded, opsStarted>>

\* deleteCustomerRow(i) is called for the displayed row i
DeleteCustomerRow(i) ==
  /\ delPc = "idle"
  /\ opsStarted < MaxOps
  /\ opsStarted' = opsStarted + 1
  /\ Store(deleteCustomerRow(i, Heap))
  /\ lastOp' = "deleteCustomerRow"
  /\ lastArg' = i
  /\ displayed' = [displayed EXCEPT !.del =
                     IF gapiInited THEN CellsOf(sheet, i + 2) ELSE @]
  /\ UNCHANGED <<Env, Libs, domLoaded>>

DeleteResolves ==
  /\ delPc = "deleting"
  /\ Store(deleteAfterBatchUpdate(Heap))
  /\ lastOp' = "deleteCustomerRow.deleted"
  /\ lastArg' = NULL
  /\ UNCHANGED <<Env, displayed, Libs, domLoaded, opsStarted>>

DeleteRejects ==
  /\ delPc = "deleting"
  /\ Store(deleteCatch(Heap))
  /\ lastOp' = "deleteCustomerRow.failed"
  /\ lastArg' = NULL
  /\ UNCHANGED <<Env, displayed, Libs, domLoaded, opsStarted>>

\* Another page on the same spreadsheet: a copy of this one (same document,
\* API client initialized) in which one customer is added.  Its handler is the
\* same code, run on that page's own state.
PeerForm == [f \in FormFields |-> "y"]

PeerHeap ==
  [Heap EXCEPT !.gapiInited = TRUE, !.addPc = peer.pc,
               !.addRow = rowData(PeerForm),
               !.inFlight = [@ EXCEPT !.add = peer.request]]

\* the state of this page, the sheet apart
PageState ==
  <<dom, CONFIG, gapiLib, gisLib, integration, domLoaded, gapiInited,
    gisLoadedFlag, currentIdToken, initializationAttempts, initPc, retryDelays,
    rendered, display, gapiToken, sessionStorage, localStorage, errorDisplay,
    lastError, refreshPolls, uiReady, integrationPoll, overridePoll,
    refreshWraps, readyEventSeen, rejections, saveBtnDisabled, addPc, addRow,
    editPc, delPc, inFlight, opsStarted, displayed>>

PeerAddCustomerSubmit ==
  /\ peer.pc = "idle"
  /\ "saveCustomer" \in dom
  /\ peer' = [peer EXCEPT !.pc = handleAddCustomerSubmit(PeerForm, PeerHeap).addPc]
  /\ before' = Snapshot
  /\ calls' = <<>>
  /\ lastOp' = "peer.handleAddCustomerSubmit"
  /\ lastArg' = NULL
  /\ UNCHANGED <<PageState, sheet>>

PeerAddReadResolves ==
  /\ peer.pc = "reading"
  /\ LET h == addAfterRead(PeerHeap)
     IN peer' = [pc |-> h.addPc, request |-> h.inFlight.add]
  /\ before' = Snapshot
  /\ calls' = <<>>
  /\ lastOp' = "peer.handleAddCustomerSubmit.read"
  /\ lastArg' = NULL
  /\ UNCHANGED <<PageState, sheet>>

PeerAddWriteResolves ==
  /\ peer.pc = "writing"
  /\ sheet' = addAfterWrite(PeerHeap).sheet
  /\ peer' = [peer EXCEPT !.pc = "done"]
  /\ before' = Snapshot
  /\ calls' = <<>>
  /\ lastOp' = "peer.handleAddCustomerSubmit.written"
  /\ lastArg' = NULL
  /\ UNCHANGED PageState

\* page load, API client initialization and the integration object appearing
LoadStep ==
  \/ DOMContentLoaded
  \/ GapiLoaded
  \/ InitializeGapiClient
  \/ GapiClientInitResolves
  \/ GapiClientInitRejects
  \/ IntegrationLoads

\* identity service, credentials, sign-out and the waits for the integration
SessionStep ==
  \/ GisLoaded
  \/ \E response \in Responses : HandleCredentialResponse(response)
  \/ HandleSignoutClick
  \/ IntegrationInitialized
  \/ GoogleSheetsIntegrationReady
  \/ InitializeGoogleSheetsIntegrationTimer
  \/ SetupRefreshDataOverrideTimer

\* add
AddStep ==
  \/ \E customerData \in FormChoices : AddCustomerSubmit(customerData)
  \/ AddReadResolves
  \/ AddReadRejects
  \/ AddWriteResolves
  \/ AddWriteRejects

\* the add of the other page
PeerStep ==
  \/ PeerAddCustomerSubmit
  \/ PeerAddReadResolves
  \/ PeerAddWriteResolves

\* add, edit and delete
RowStep ==
  \/ AddStep
  \/ \E i \in Indices, values \in EditValues : EditFormSubmit(i, values)
  \/ EditUpdateResolves
  \/ EditUpdateRejects
  \/ \E i \in Indices : DeleteCustomerRow(i)
  \/ DeleteResolves
  \/ DeleteRejects
  \/ SafeRefreshDataTimer
  \/ UnhandledRejection

Next == LoadStep \/ SessionStep \/ RowStep \/ PeerStep

\* the whole page
Spec == Init /\ [][Next]_vars

\* The row operations read none of the variables the session steps write
\* (currentIdToken, gisLoadedFlag, rendered, display, gapiToken, the storage
\* keys) and write none the session steps read, so the two are explored
\* separately: SpecView is the page without row operations, SpecRows the page
\* without identity service and session steps.
SpecView == InitOn(ViewPages) /\ [][LoadStep \/ SessionStep]_vars

SpecRows == InitOn(RowPages) /\ [][LoadStep \/ RowStep]_vars

\* two writers: the adds of this page and the add of the other page
SpecWriters == InitOn(RowPages) /\ [][LoadStep \/ AddStep \/ PeerStep]_vars

-----------------------------------------------------------------------------
(* Properties *)

BothReady == gapiInited /\ gisLoadedFlag

\* a credential response carrying a non-empty credential has just been handled
SignInStep == lastOp = "handleCredentialResponse" /\ Truthy(lastArg)

\* a credential response without a (non-empty) credential has just been handled
FailedSignInStep == lastOp = "handleCredentialResponse" /\ ~Truthy(lastArg)

SignOutStep == lastOp = "handleSignoutClick"

Min(a, b) == IF a < b THEN a ELSE b

\* C1: the sign-in button is rendered only if both gapiInited and gisLoadedFlag
\* are true; while either flag is false renderButton has never been called,
\* whatever gapiLoaded / initializeGapiClient (with its retries) and gisLoaded
\* did, successfully or not.
C1_RenderOnlyWhenBothReady ==
  /\ ~BothReady => rendered = 0
  /\ Called("google.accounts.id.renderButton") => BothReady

C1_Witness ==
  /\ Called("google.accounts.id.renderButton")
  /\ BothReady
  /\ rendered = 1

\* C2: with the container g_id_onload present, a step calls renderButton once
\* if it makes both readiness flags true and not at all otherwise: the
\* completion that sets the second flag renders exactly once, the earlier
\* completion, the failed attempts and the retries render nothing.
C2_RenderOncePerBothReady ==
  [][("g_id_onload" \in dom) =>
       rendered' - rendered = (IF BothReady' /\ ~BothReady THEN 1 ELSE 0)]_vars

C2_Witness ==
  /\ "g_id_onload" \in dom
  /\ lastOp = "initializeGapiClient.resolved"
  /\ initializationAttempts = 2
  /\ BothReady
  /\ rendered = 1

\* C3 as stated: after k failed attempts min(k, 3) retries have been
\* scheduled, with delays 2000, 4000 and 6000 ms in that order.
C3_Original ==
  retryDelays = [k \in 1..Min(initializationAttempts, 3) |-> RetryDelayUnit * k]

\* C3 amended: initializeGapiClient runs at most MAX_INITIALIZATION_ATTEMPTS
\* (3) times; the k-th failure schedules a retry, with delay 2000 * k ms, only
\* while k < 3, so there are min(k, 2) retries with delays 2000 and 4000 ms in
\* that order and the third failure schedules none; a success stops the
\* retrying (no retry is pending or scheduled once gapiInited is true).
C3_RetriesBelowMaxAttempts ==
  /\ initializationAttempts <= MAX_INITIALIZATION_ATTEMPTS
  /\ retryDelays =
       [k \in 1..Min(initializationAttempts, MAX_INITIALIZATION_ATTEMPTS - 1) |->
          RetryDelayUnit * k]
  /\ initializationAttempts = MAX_INITIALIZATION_ATTEMPTS => initPc = "idle"
  /\ gapiInited => initPc = "idle"

C3_Witness ==
  /\ initializationAttempts = 3
  /\ retryDelays = <<2000, 4000>>
  /\ initPc = "idle"
  /\ ~gapiInited

\* C4: handling a credential response that carries a non-empty credential
\* (on a page that has the three view containers) stores the credential, sets
\* the API client token to it, makes the view signed-in and sets
\* sessionStorage isLoggedIn to "true".
C4_SignInTransition ==
  (SignInStep /\ RequiredDom \subseteq dom) =>
     /\ currentIdToken = lastArg
     /\ gapiToken = currentIdToken
     /\ Called("gapi.client.setToken")
     /\ ViewSignedIn
     /\ sessionStorage = "true"

C4_Witness ==
  /\ SignInStep
  /\ before.display = SignedOutDisplay
  /\ before.sessionStorage = NULL
  /\ ViewSignedIn
  /\ gapiToken = lastArg
  /\ sessionStorage = "true"

\* C5 as stated: a sign-out from the signed-in view sets the API client token
\* to empty, disables auto-select, discards the credential and leaves the view
\* signed-out.
C5_Original ==
  (SignOutStep /\ before.display = SignedInDisplay) =>
     /\ gapiToken = ""
     /\ Called("google.accounts.id.disableAutoSelect")
     /\ currentIdToken = NULL
     /\ ViewSignedOut

\* C5 amended: a sign-out from the signed-in view discards the held
\* credential and leaves the view signed-out; it disables auto-select exactly
\* when the identity library (google.accounts.id) is loaded, and it sets the
\* API client token to empty exactly when the API client library is loaded
\* (otherwise no token was ever set, and the failed call is reported).
C5_SignOutTransition ==
  (SignOutStep /\ before.display = SignedInDisplay) =>
     /\ currentIdToken = NULL
     /\ ViewSignedOut
     /\ Called("google.accounts.id.disableAutoSelect") <=> gisLib = "present"
     /\ IF gapiLib = "client"
        THEN gapiToken = "" /\ Called("gapi.client.setToken")
        ELSE gapiToken = NULL /\ lastError = "updateSigninStatus"

C5_Witness ==
  /\ SignOutStep
  /\ before.display = SignedInDisplay
  /\ before.currentIdToken \in Credentials
  /\ before.gapiToken = before.currentIdToken
  /\ gapiToken = ""
  /\ Called("google.accounts.id.disableAutoSelect")
  /\ ViewSignedOut

\* C6: an add-customer submission with a required field empty issues no
\* remote call (no values.get, no values.update), requests no refresh and
\* starts no add; it ends with a message on display, which is the validation
\* message whenever the handler got to the validation (API client initialized).
C6_ValidationShortCircuit ==
  (lastOp = "handleAddCustomerSubmit"
     /\ \E f \in RequiredFields : ~Truthy(lastArg[f])) =>
     /\ calls = <<>>
     /\ addPc = "idle"
     /\ refreshPolls = before.refreshPolls
     /\ errorDisplay \in {"Mohon lengkapi semua field",
                          "Google API client not initialized"}
     /\ gapiInited <=> errorDisplay = "Mohon lengkapi semua field"

C6_Witness ==
  /\ lastOp = "handleAddCustomerSubmit"
  /\ gapiInited
  /\ ~Truthy(lastArg["alamat"])
  /\ \A f \in FormFields \ {"alamat"} : Truthy(lastArg[f])
  /\ errorDisplay = "Mohon lengkapi semua field"
  /\ calls = <<>>

\* C7: an edit submission with displayed index i (the API client being
\* initialized, as it is once rows are displayed) issues exactly one remote
\* call, a values.update whose range is row i + 2, columns A to H, carrying 8
\* values; that request is the only write pending for the edit.
C7_EditTargetsRowPlusTwo ==
  (lastOp = "editForm.submit" /\ gapiInited) =>
     /\ Len(calls) = 1
     /\ calls[1].api = "values.update"
     /\ calls[1].start = lastArg + 2
     /\ calls[1].end = lastArg + 2
     /\ calls[1].firstCol = "A"
     /\ calls[1].lastCol = "H"
     /\ Len(calls[1].values) = 8
     /\ inFlight.edit = calls[1]

C7_Witness ==
  /\ lastOp = "editForm.submit"
  /\ lastArg = LargeIndex
  /\ Len(calls) = 1
  /\ calls[1].start = LargeIndex + 2

\* C8: deleteCustomerRow with displayed index i (the API client being
\* initialized) issues exactly one batchUpdate, holding one deleteDimension
\* over ROWS with startIndex = i + 1 and endIndex = i + 2.
C8_DeleteRange ==
  (lastOp = "deleteCustomerRow" /\ gapiInited) =>
     /\ Len(calls) = 1
     /\ calls[1] = Request("batchUpdate.deleteDimension", lastArg + 1,
                           lastArg + 2, "ROWS", "ROWS", <<>>)
     /\ inFlight.del = calls[1]

C8_Witness ==
  /\ lastOp = "deleteCustomerRow"
  /\ lastArg = 0
  /\ Len(calls) = 1
  /\ calls[1].start = 1
  /\ calls[1].end = 2

\* C9 as stated: login writes isLoggedIn under both storage keys, and logout
\* clears only one of them, the other still holding the flag.
C9_Original ==
  /\ (SignInStep /\ RequiredDom \subseteq dom) =>
        sessionStorage = "true" /\ localStorage = "true"
  /\ (SignOutStep /\ before.sessionStorage = "true") =>
        (sessionStorage = "true") # (localStorage = "true")

\* C9 amended: login writes isLoggedIn under the sessionStorage key only (no
\* step of the script ever writes it under localStorage), and logout removes
\* both keys, so neither holds the flag after sign-out.
C9_StorageKeys ==
  /\ (SignInStep /\ RequiredDom \subseteq dom) =>
        sessionStorage = "true" /\ localStorage = before.localStorage
  /\ localStorage = "true" => before.localStorage = "true"
  /\ SignOutStep => sessionStorage = NULL /\ localStorage = NULL

C9_Witness ==
  /\ SignOutStep
  /\ before.sessionStorage = "true"
  /\ before.localStorage = "true"
  /\ before.currentIdToken \in Credentials
  /\ sessionStorage = NULL
  /\ localStorage = NULL

\* C10: a credential response without a credential is a failure: it is
\* reported through ErrorHandler.handleError, the held credential and the
\* session flag stay as they were, and the view is not signed-in afterwards
\* (signed-out, on a page that has the three view containers).
C10_MissingCredentialFails ==
  FailedSignInStep =>
     /\ lastError = "handleCredentialResponse"
     /\ ("errorDisplay" \in dom) => errorDisplay = "handleCredentialResponse"
     /\ currentIdToken = before.currentIdToken
     /\ sessionStorage = before.sessionStorage
     /\ ~ViewSignedIn
     /\ (RequiredDom \subseteq dom) => ViewSignedOut

C10_Witness ==
  /\ FailedSignInStep
  /\ lastArg = UNDEFINED
  /\ before.display = SignedInDisplay
  /\ before.currentIdToken \in Credentials
  /\ currentIdToken = before.currentIdToken
  /\ ViewSignedOut

\* the sign-in button has just been drawn
RenderStep == Called("google.accounts.id.renderButton")

\* C11 as stated: on a loaded page that has the view containers, sessionStorage
\* isLoggedIn is "true" if and only if the view is signed-in.
C11_Original ==
  (domLoaded /\ dom = ElementIds) => (sessionStorage = "true" <=> ViewSignedIn)

\* C11 amended: whenever the view is signed-in sessionStorage isLoggedIn is
\* "true", but not the converse: the flag is written by each transition to
\* signed-in and removed only by an explicit sign-out, so it stays "true" when
\* the view is made signed-out by the step that draws the sign-in button or by
\* a credential response without a credential.
C11_FlagFollowsSignIn ==
  /\ ViewSignedIn => sessionStorage = "true"
  /\ (before.sessionStorage = "true" /\ sessionStorage # "true") => SignOutStep
  /\ ((RenderStep \/ FailedSignInStep) /\ before.sessionStorage = "true") =>
        sessionStorage = "true"

C11_Witness ==
  /\ FailedSignInStep
  /\ before.display = SignedInDisplay
  /\ before.sessionStorage = "true"
  /\ ViewSignedOut
  /\ sessionStorage = "true"

\* C12 as stated: a step that finds the view signed-in and leaves it otherwise
\* is an explicit sign-out.
C12_Original ==
  (before.display = SignedInDisplay /\ ~ViewSignedIn) => SignOutStep

\* C12 amended: the view leaves the signed-in state through an explicit
\* sign-out, through a credential response without a credential, and through
\* the initialization completion that draws the sign-in button (each of them
\* calls updateSigninStatus(false), so each leaves the view signed-out on a
\* page that has the view containers); no other event moves it.
C12_LeavesSignedIn ==
  /\ (before.display = SignedInDisplay /\ ~ViewSignedIn) =>
        (SignOutStep \/ FailedSignInStep \/ RenderStep)
  /\ ((SignOutStep \/ FailedSignInStep \/ RenderStep) /\ RequiredDom \subseteq dom) =>
        ViewSignedOut

C12_Witness ==
  /\ RenderStep
  /\ lastOp \in {"gisLoaded", "initializeGapiClient.resolved"}
  /\ before.display = SignedInDisplay
  /\ ViewSignedOut

\* C13 as stated: whenever the view is signed-in the API client token equals a
\* non-empty held credential.
C13_Original ==
  ViewSignedIn => (Truthy(currentIdToken) /\ gapiToken = currentIdToken)

\* C13 amended: in a signed-in state entered by a credential response the API
\* client token is set from the held credential; in the signed-in state
\* entered on page load from the persisted flag no credential is held unless
\* an earlier response left one, and without one no token is set (the API
\* client token is whatever it was: never set, or cleared).
C13_TokenWhenCredentialHeld ==
  ViewSignedIn =>
     IF Truthy(currentIdToken)
     THEN gapiToken = currentIdToken
     ELSE /\ currentIdToken = NULL
          /\ gapiToken \in {NULL, ""}
          /\ lastOp # "handleCredentialResponse"

C13_Witness ==
  /\ ViewSignedIn
  /\ lastOp = "DOMContentLoaded"
  /\ currentIdToken = NULL
  /\ gapiToken = NULL
  /\ sessionStorage = "true"

\* a credential response or a sign-out has just been handled on a page that
\* lacks one of the three view containers
TransitionWithoutContainers ==
  /\ ~(RequiredDom \subseteq dom)
  /\ SignInStep \/ FailedSignInStep \/ SignOutStep

\* C14 as stated: such a step changes nothing of the view containers, the API
\* client token, the held credential and the persisted flag.
C14_Original ==
  TransitionWithoutContainers =>
     /\ display = before.display
     /\ gapiToken = before.gapiToken
     /\ currentIdToken = before.currentIdToken
     /\ sessionStorage = before.sessionStorage

\* C14 amended: on a page that lacks one of the three containers
\* updateSigninStatus does nothing, so no step ever changes the visibility of
\* the containers or the API client token; but the handlers around it still
\* act: a credential response with a credential stores it as the held
\* credential (the flag is not written), and a sign-out discards the held
\* credential and removes isLoggedIn from both storages.
C14_OnlyTheViewIsGuarded ==
  /\ ~(RequiredDom \subseteq dom) => (display = NoDisplay /\ gapiToken = NULL)
  /\ (TransitionWithoutContainers /\ SignInStep) =>
        /\ currentIdToken = lastArg
        /\ sessionStorage = before.sessionStorage
        /\ localStorage = before.localStorage
  /\ (TransitionWithoutContainers /\ FailedSignInStep) =>
        /\ currentIdToken = before.currentIdToken
        /\ sessionStorage = before.sessionStorage
        /\ localStorage = before.localStorage
  /\ (TransitionWithoutContainers /\ SignOutStep) =>
        /\ currentIdToken = NULL
        /\ sessionStorage = NULL
        /\ localStorage = NULL

C14_Witness ==
  /\ TransitionWithoutContainers
  /\ SignOutStep
  /\ before.currentIdToken \in Credentials
  /\ before.sessionStorage = "true"
  /\ currentIdToken = NULL
  /\ sessionStorage = NULL
  /\ display = NoDisplay

\* every attempt of initializeGapiClient has failed
GapiInitFailed == initializationAttempts = MAX_INITIALIZATION_ATTEMPTS

\* gisLoaded has run and failed
GisInitFailed == gisLib = "present" /\ "CLIENT_ID" \notin CONFIG

\* C15: an initialization failure is reported (in #errorDisplay, on a page
\* that has it) and is not fatal.  Once every API client attempt has failed
\* gapiInited is false and no retry is pending, and once identity service
\* initialization has failed gisLoadedFlag is false (nothing retries it); as
\* these conditions persist, the flag stays false, the gating check never
\* passes and the sign-in button is never drawn.
C15_FailedInitializationStaysFailed ==
  /\ GapiInitFailed => (~gapiInited /\ initPc = "idle" /\ rendered = 0)
  /\ GisInitFailed => (~gisLoadedFlag /\ rendered = 0)
  /\ (lastOp = "initializeGapiClient.rejected" /\ "errorDisplay" \in dom) =>
        errorDisplay = "initializeGapiClient"
  /\ (lastOp = "gisLoaded" /\ GisInitFailed /\ "errorDisplay" \in dom) =>
        errorDisplay = "gisLoaded"
  /\ (GapiInitFailed \/ GisInitFailed) => ~BothReady

C15_Witness ==
  /\ GapiInitFailed
  /\ lastOp = "handleSignoutClick"
  /\ gisLoadedFlag
  /\ ~gapiInited
  /\ rendered = 0

\* the last step requested a refresh: it called refreshData, or set the timer
\* that polls for the integration object
RefreshRequested ==
  \/ Called("googleSheetsIntegration.refreshData")
  \/ refreshPolls = before.refreshPolls + 1

\* an add, edit or delete has just ended after its remote calls succeeded
OperationSucceeded ==
  lastOp \in {"handleAddCustomerSubmit.written", "editForm.updated",
              "deleteCustomerRow.deleted"}

\* an add, edit or delete has just ended because a remote call it made failed
OperationFailed ==
  lastOp \in {"handleAddCustomerSubmit.readFailed",
              "handleAddCustomerSubmit.writeFailed", "editForm.updateFailed",
              "deleteCustomerRow.failed"}

\* C19 as stated: every add, edit or delete that reached its remote call ends
\* with a refresh requested.
C19_Original ==
  (OperationSucceeded \/ OperationFailed) => RefreshRequested

\* C19 amended: an add, edit or delete whose remote calls succeed ends with a
\* refresh requested (refreshData called, or the poll for the integration
\* object started); one whose remote call fails ends in its catch block, which
\* reports the error and requests no refresh.
C19_RefreshAfterSuccessOnly ==
  /\ OperationSucceeded => RefreshRequested
  /\ OperationFailed =>
        /\ calls = <<>>
        /\ refreshPolls = before.refreshPolls
        /\ lastError \in {"handleAddCustomerSubmit", "editForm.submit",
                          "deleteCustomerRow"}

C19_Witness ==
  /\ lastOp = "editForm.updated"
  /\ integration = "absent"
  /\ refreshPolls = before.refreshPolls + 1

\* C20: the poll of setupRefreshDataOverride has no attempt bound.  From page
\* load on, as long as the integration object is absent a timer for the next
\* poll is pending and nothing is wrapped, however many polls have run; the
\* poll that finds the object wraps refreshData and sets no timer, so
\* refreshData is wrapped at most once, and exactly once when no poll is
\* pending any more.
C20_OverridePoll ==
  /\ ~domLoaded => (~overridePoll /\ refreshWraps = 0)
  /\ (domLoaded /\ integration = "absent") => (overridePoll /\ refreshWraps = 0)
  /\ refreshWraps <= 1
  /\ (domLoaded /\ ~overridePoll) <=> refreshWraps = 1
  /\ (lastOp = "setupRefreshDataOverride.timer" /\ integration # "absent") =>
        (refreshWraps = 1 /\ ~overridePoll)

C20_Witness ==
  /\ lastOp = "setupRefreshDataOverride.timer"
  /\ integration # "absent"
  /\ refreshWraps = 1
  /\ ~overridePoll

\* the number of rows a read of the data range returns
RowCount == Len(ValuesGet(sheet))

\* C18: a valid add appends.  The step that receives the rows read issues one
\* values.update of 12 values over columns A to L of row rowCount + 2, a row
\* that holds no data; and when that write is applied to a sheet whose row
\* count is still the one read (no writer interleaved), the sheet gains that
\* row, holding the submitted values, and every row that held data keeps it.
C18_AddAppends ==
  [][/\ (addPc = "reading" /\ lastOp' = "handleAddCustomerSubmit.read") =>
          /\ Len(calls') = 1
          /\ calls'[1] = Request("values.update", RowCount + 2, RowCount + 2,
                                 "A", "L", addRow)
          /\ Len(addRow) = Columns
          /\ RowCount + 2 \notin DOMAIN sheet
          /\ inFlight'.add = calls'[1]
          /\ sheet' = sheet
     /\ (addPc = "writing" /\ lastOp' = "handleAddCustomerSubmit.written"
           /\ inFlight.add.start = RowCount + 2) =>
          /\ DOMAIN sheet' = DOMAIN sheet \cup {RowCount + 2}
          /\ RowCount + 2 \notin DOMAIN sheet
          /\ sheet'[RowCount + 2] = addRow
          /\ \A r \in DOMAIN sheet : sheet'[r] = sheet[r]]_vars

C18_Witness ==
  /\ lastOp = "handleAddCustomerSubmit.written"
  /\ DOMAIN sheet = 2..(InitialRows + 2)
  /\ \A r \in 2..(InitialRows + 1) : sheet[r] = SheetRow(r - 1)
  /\ sheet[InitialRows + 2] = addRow
  /\ Len(addRow) = Columns

\* the rows of the sheet that hold the cells given
RowsHolding(cells) == {r \in DOMAIN sheet : sheet[r] = cells}

\* C16: the read-then-write pair of the add path is not atomic.  While the
\* add of this page and the add of another page both have their write
\* pending and neither target row has been written, the two target the same
\* row (both read the same row count); and when this page's write to the row
\* the other page has already written succeeds, it replaces that row, so the
\* customer the other page added, and was told had been added, is in no row of
\* the sheet.
C16_AddRace ==
  /\ (addPc = "writing" /\ peer.pc = "writing"
        /\ inFlight.add.start \notin DOMAIN sheet
        /\ peer.request.start \notin DOMAIN sheet) =>
        inFlight.add.start = peer.request.start
  /\ (lastOp = "handleAddCustomerSubmit.written" /\ peer.pc = "done"
        /\ inFlight.add.start = peer.request.start) =>
        /\ sheet[inFlight.add.start] = addRow
        /\ RowsHolding(rowData(PeerForm)) = {}
  /\ (lastOp = "peer.handleAddCustomerSubmit.written"
        /\ inFlight.add.start = peer.request.start) =>
        /\ sheet[peer.request.start] = rowData(PeerForm)
        /\ sheet[peer.request.start] # addRow

C16_Witness ==
  /\ lastOp = "handleAddCustomerSubmit.written"
  /\ errorDisplay = "Calon pelanggan berhasil ditambahkan"
  /\ peer.pc = "done"
  /\ inFlight.add.start = peer.request.start
  /\ sheet[inFlight.add.start] = addRow
  /\ RowsHolding(rowData(PeerForm)) = {}
  /\ DOMAIN sheet = 2..(InitialRows + 2)

\* the write of an edit / the removal of a delete is being applied
EditApplied == editPc = "updating" /\ lastOp' = "editForm.updated"

DeleteApplied == delPc = "deleting" /\ lastOp' = "deleteCustomerRow.deleted"

RowNumbers == DOMAIN sheet \cup DOMAIN sheet'

\* C17 as stated: whatever ran in between, an edit changes only the row that
\* was displayed at its index when it was started, and a delete removes the
\* row that was displayed at its index when it was started.
C17_Original ==
  [][/\ EditApplied =>
          \A r \in RowNumbers :
             CellsOf(sheet', r) # CellsOf(sheet, r) =>
               (r = inFlight.edit.start /\ CellsOf(sheet, r) = displayed.edit)
     /\ DeleteApplied => CellsOf(sheet, inFlight.del.end) = displayed.del]_vars

\* C17 amended: edits and deletes address rows by position.  The request of an
\* edit or delete names the sheet row index + 2, which holds the displayed
\* row when the operation is started; the edit then writes columns A to H of
\* whatever row is at that position when the write is applied and leaves every
\* other row alone, and the delete removes whatever row is at that position
\* when it is applied, the rows below moving up by one.  So a delete that
\* completes in between makes a pending edit or delete of a later row hit the
\* customer below the one displayed: a second concurrency hazard.
C17_RowsAddressedByPosition ==
  [][/\ (lastOp' = "editForm.submit" /\ editPc' = "updating" /\ editPc = "idle") =>
          displayed'.edit = CellsOf(sheet, inFlight'.edit.start)
     /\ (lastOp' = "deleteCustomerRow" /\ delPc' = "deleting" /\ delPc = "idle") =>
          displayed'.del = CellsOf(sheet, inFlight'.del.end)
     /\ EditApplied =>
          LET r == inFlight.edit.start IN
          /\ \A x \in RowNumbers \ {r} : CellsOf(sheet', x) = CellsOf(sheet, x)
          /\ \A c \in 1..8 : CellsOf(sheet', r)[c] = inFlight.edit.values[c]
          /\ \A c \in 9..Columns : CellsOf(sheet', r)[c] = CellsOf(sheet, r)[c]
     /\ DeleteApplied =>
          LET r == inFlight.del.end IN
          \A x \in RowNumbers :
             CellsOf(sheet', x) = CellsOf(sheet, IF x < r THEN x ELSE x + 1)]_vars

C17_Witness ==
  /\ lastOp = "editForm.updated"
  /\ delPc = "idle"
  /\ inFlight.del.end = 2
  /\ inFlight.edit.start = 3
  /\ displayed.edit = SheetRow(2)
  /\ sheet[2] = SheetRow(2)
  /\ \A c \in 1..8 : sheet[3][c] = inFlight.edit.values[c]

\* C21: an add-customer submission that finds the API client not initialized
\* issues no remote call, starts no add, writes no row and requests no
\* refresh, whatever the form holds; it shows the "not initialized" message
\* and leaves the readiness flags, the session state (held credential, API
\* client token, view, storage keys) and the save button as they were.
C21_AddBeforeInitialization ==
  [][(lastOp' = "handleAddCustomerSubmit" /\ opsStarted' = opsStarted + 1
        /\ ~gapiInited) =>
       /\ calls' = <<>>
       /\ errorDisplay' = "Google API client not initialized"
       /\ UNCHANGED <<sheet, addPc, addRow, inFlight, refreshPolls,
                      saveBtnDisabled, rejections, lastError>>
       /\ UNCHANGED <<gapiInited, gisLoadedFlag, initializationAttempts, initPc>>
       /\ UNCHANGED <<currentIdToken, gapiToken, display, sessionStorage,
                      localStorage>>]_vars

C21_Witness ==
  /\ lastOp = "handleAddCustomerSubmit"
  /\ ~gapiInited
  /\ initPc = "awaiting"
  /\ \A f \in FormFields : Truthy(lastArg[f])
  /\ errorDisplay = "Google API client not initialized"
  /\ calls = <<>>
  /\ addPc = "idle"

\* an add of this page is between its submission and its end
AddInFlight == addPc \in {"reading", "writing"}

\* C22: the save button is disabled exactly while an add is in flight.  Every
\* path that disabled it (the read or the write succeeding or failing) runs
\* the finally block, which enables it again, so in every state with no add in
\* flight the button is enabled.
C22_SaveButtonReenabled ==
  /\ saveBtnDisabled <=> AddInFlight
  /\ lastOp \in {"handleAddCustomerSubmit.written",
                 "handleAddCustomerSubmit.readFailed",
                 "handleAddCustomerSubmit.writeFailed"} =>
        (~AddInFlight /\ ~saveBtnDisabled)
  /\ AddInFlight => "saveCustomer" \in dom

C22_Witness ==
  /\ lastOp = "handleAddCustomerSubmit.writeFailed"
  /\ lastError = "handleAddCustomerSubmit"
  /\ opsStarted = MaxOps
  /\ ~AddInFlight
  /\ ~saveBtnDisabled

====
